---- MODULE Spec2Model ----
(***************************************************************************)
(* Feed pagination and first-page cache of the Facebook-clone server.      *)
(*                                                                         *)
(* The persistent store (posts, follow edges, likes, comments,             *)
(* notifications) and the Redis keys feed:<userId> and likes:<postId> are  *)
(* the state.  Every controller is one action.  Post ids are cuids; they   *)
(* are modelled by integers in allocation order, and the `lt` comparison   *)
(* of the cursor query by integer <.                                       *)
(***************************************************************************)
EXTENDS Integers, Sequences, FiniteSets, TLC

\* ---------------------------------------------------------------- bounds
NumUsers == 2
MaxWrites == 2
MaxAuthWrites == 3

\* ------------------------------------------------------ program constants
MinLimit == 1
MaxLimit == 50
DefaultLimit == 20
TakeCap == 50

Users == 1..NumUsers
PostIds == 1..MaxWrites
NoSuchUser == 0

NoCursor == 0
NoEntry == [present |-> FALSE]

\* posts .. nextCommentId: the persistent store; feedCache, likesCache: the
\* Redis keys; writes: number of store writes done; resp: the last HTTP
\* response; pager, likeTrack, repeat: what a client doing one scenario
\* (paging through the feed, like then look, asking twice) has seen so far.
VARIABLES posts, follows, likes, comments, notifications,
          feedCache, likesCache, now, nextId, nextCommentId, writes,
          resp, pager, likeTrack, repeat,
          redisDown, inflight,
          accounts, sessions, authNow, pending, authResp, authLog,
          attempts, rateNow, letThrough, mobile,
          signups, signupsPassed, followRows, followReq,
          likeRows, noteRows, emits, likeReq, likeSeq,
          sockets, activeUsers, onlineCount, socketSeq

vars == <<posts, follows, likes, comments, notifications,
          feedCache, likesCache, now, nextId, nextCommentId, writes,
          resp, pager, likeTrack, repeat,
          redisDown, inflight,
          accounts, sessions, authNow, pending, authResp, authLog,
          attempts, rateNow, letThrough, mobile,
          signups, signupsPassed, followRows, followReq,
          likeRows, noteRows, emits, likeReq, likeSeq,
          sockets, activeUsers, onlineCount, socketSeq>>

store == <<posts, follows, likes, comments, notifications, now, nextId,
           nextCommentId, writes>>

clients == <<pager, likeTrack, repeat>>

\* redisDown: the Redis connection is failing
\* inflight: the getFeed requests being handled concurrently
raceVars == <<inflight>>

\* accounts: the User table; sessions: the Redis keys session:<userId>;
\* authNow: the clock in seconds; pending: the register and refresh requests
\* being handled; authResp: the last response of an auth endpoint; authLog:
\* the tokens issued, used and outdated so far.
authVars == <<accounts, sessions, authNow, pending, authResp, authLog>>

\* attempts: the Map of loginRateLimit; rateNow: Date.now() in ms;
\* letThrough: how many login requests of each IP were passed on, by instant
rateVars == <<attempts, rateNow, letThrough>>

\* the mobile app: its AsyncStorage and the position of its request
mobileVars == <<mobile>>

\* signups: the Map of registerRateLimit; signupsPassed: how many register
\* requests of each IP were passed on, by instant
signupVars == <<signups, signupsPassed>>

\* followRows: the rows of the Follow table; followReq: the follow and
\* unfollow requests between their lookup and their write
followVars == <<followRows, followReq>>

\* likeRows, noteRows: the rows of the Like and Notification tables;
\* emits: the 'notification:new' events sent to rooms; likeReq: the toggleLike
\* requests in progress; likeSeq: the number of rows created so far
toggleVars == <<likeRows, noteRows, emits, likeReq, likeSeq>>

\* sockets: the connected sockets; activeUsers: the Map of the socket
\* handlers; onlineCount: the value last sent as 'online:count'; socketSeq:
\* the number of connections made so far
presenceVars == <<sockets, activeUsers, onlineCount, socketSeq>>

restVars == <<signupVars, followVars, toggleVars, presenceVars>>

others == <<redisDown, raceVars, authVars, rateVars, mobileVars, restVars>>

feedVars == <<store, feedCache, likesCache, resp, clients, redisDown, raceVars>>

\* ----------------------------------------------------------- small helpers
Min(a, b) == IF a < b THEN a ELSE b

Last(s) == s[Len(s)]

SeqIds(s) == [i \in 1..Len(s) |-> s[i].id]

Range(s) == {s[i] : i \in 1..Len(s)}

PostExists(id) == \E p \in posts : p.id = id

PostById(id) == CHOOSE p \in posts : p.id = id

\* ------------------------------------------------- request query validation
\* A raw `limit` query parameter: absent, an integer literal, or text that
\* is not a number.
LimitValues == {-1, 0, 1, 2, 50, 51, 1000}

LimitQueries ==
    {[kind |-> "absent", val |-> 0], [kind |-> "text", val |-> 0]}
        \cup {[kind |-> "int", val |-> n] : n \in LimitValues}

\* the upper bound mistyped: limits up to 100 pass the validation
LimitValid_Max100(lim) ==
    \/ lim.kind = "absent"
    \/ lim.kind = "int" /\ lim.val >= MinLimit /\ lim.val <= 100

\* schemas.limit: Joi.number().integer().min(1).max(50).default(20)
LimitValid(lim) ==
    \/ lim.kind = "absent"
    \/ lim.kind = "int" /\ lim.val >= MinLimit /\ lim.val <= MaxLimit

LimitValue(lim) == IF lim.kind = "absent" THEN DefaultLimit ELSE lim.val

\* validatePagination + validateQuery: on error the request is answered 400
\* and the handler is not run; otherwise req.query is the validated value.
QueryValid(cursor, lim) == LimitValid(lim)

\* getFeed: const take = Math.min(parseInt(limit), 50)
Take(limit) == Min(limit, TakeCap)

\* ------------------------------------------------------------- feed query
\* prisma.follow.findMany({where: {followerId}}) then followingIds.push(userId)
FollowingIds(userId) == {e[2] : e \in {f \in follows : f[1] = userId}} \cup {userId}

\* whereClause: authorId in followingIds, and id < cursor when a cursor is given
WhereClause(userId, cursor) ==
    {p \in posts : /\ p.authorId \in FollowingIds(userId)
                   /\ (cursor # NoCursor => p.id < cursor)}

\* orderBy: {createdAt: 'desc'}: every arrangement of the matching rows with
\* non-increasing createdAt; rows of equal createdAt come in any order.
OrderByCreatedAtDesc(S) ==
    {o \in [1..Cardinality(S) -> S] :
        /\ \A i, j \in 1..Cardinality(S) : i # j => o[i] # o[j]
        /\ \A i \in 1..(Cardinality(S) - 1) : o[i].createdAt >= o[i + 1].createdAt}

\* the extra row forgotten: only `take` rows are fetched
FindMany_NoExtraRow(order, take) == SubSeq(order, 1, Min(Len(order), take))

\* take: take + 1
FindMany(order, take) == SubSeq(order, 1, Min(Len(order), take + 1))

LikesCount(postId) == Cardinality({l \in likes : l[1] = postId})

CommentsCount(postId) == Cardinality({c \in comments : c.postId = postId})

\* formattedPosts: one entry per returned post
FormatPost(post, userId) ==
    [id |-> post.id,
     content |-> post.content,
     createdAt |-> post.createdAt,
     authorId |-> post.authorId,
     likesCount |-> LikesCount(post.id),
     commentsCount |-> CommentsCount(post.id),
     isLiked |-> <<post.id, userId>> \in likes]

HasMore(fetched, take) == Len(fetched) > take

PostsToReturn(fetched, take) ==
    IF HasMore(fetched, take) THEN SubSeq(fetched, 1, Len(fetched) - 1) ELSE fetched

NextCursor(fetched, take) ==
    IF HasMore(fetched, take) THEN Last(PostsToReturn(fetched, take)).id ELSE NoCursor

\* the `response` object of getFeed built from one arrangement of the rows
FeedResponse(order, userId, take) ==
    LET fetched == FindMany(order, take)
        ret == PostsToReturn(fetched, take)
    IN [present |-> TRUE,
        posts |-> [i \in 1..Len(ret) |-> FormatPost(ret[i], userId)],
        hasMore |-> HasMore(fetched, take),
        nextCursor |-> NextCursor(fetched, take)]

\* every response the store path can give for (userId, cursor, take)
StoreResponses(userId, cursor, take) ==
    {FeedResponse(o, userId, take) : o \in OrderByCreatedAtDesc(WhereClause(userId, cursor))}

\* ------------------------------------------------------------------- Init
NoResp ==
    [op |-> "none", status |-> 0, viewer |-> 0, cursor |-> NoCursor,
     limit |-> [kind |-> "absent", val |-> 0], take |-> 0, cached |-> FALSE,
     posts |-> <<>>, hasMore |-> FALSE, nextCursor |-> NoCursor,
     isLiked |-> FALSE, likesCount |-> 0, cacheFailed |-> FALSE, postId |-> 0,
     target |-> NoSuchUser]

IdlePager == [st |-> "idle", v |-> 0, limit |-> [kind |-> "absent", val |-> 0],
              seen |-> <<>>, cursor |-> NoCursor]

NoTrack == [st |-> "none", v |-> 0, p |-> 0, pre |-> 0,
            seen |-> FALSE, liked |-> FALSE, count |-> 0]

NoRepeat == [st |-> "none", v |-> 0, cursor |-> NoCursor,
             limit |-> [kind |-> "absent", val |-> 0], first |-> <<>>, second |-> <<>>]

\* the slots of the concurrently handled requests
Requests == {1, 2}

\* A JWT is determined by its payload: {userId, type, iat}; exp = iat + TTL.
NoToken == [userId |-> 0, type |-> "none", iat |-> 0]

NoPending == [pc |-> "idle", kind |-> "none", token |-> NoToken, userId |-> 0,
              email |-> 0, username |-> 0]

NoAuthResp == [op |-> "none", status |-> 0, message |-> "", userId |-> 0,
               token |-> NoToken, access |-> NoToken, refresh |-> NoToken,
               email |-> 0, username |-> 0]

EmptyLog == [issued |-> {}, revoked |-> {}, stale |-> {}, spent |-> {}, writes |-> 0]

NoRequest == [pc |-> "idle", viewer |-> 0, missed |-> FALSE, dirty |-> FALSE,
              page |-> NoEntry]

\* loginRateLimit = authRateLimit(5, 15 * 60 * 1000)
MaxAttempts == 5
WindowMs == 900000

\* the client addresses (req.ip)
Ips == {1, 2}

\* the instants at which login requests arrive: the start of a window, its
\* last millisecond, and the first two milliseconds after it
RateInstantSeq == <<0, WindowMs - 1, WindowMs, WindowMs + 1>>

RateInstants == {RateInstantSeq[i] : i \in 1..Len(RateInstantSeq)}

\* registerRateLimit = authRateLimit(3, 15 * 60 * 1000)
SignupMaxAttempts == 3
SignupWindowMs == 900000

\* "3 attempts per hour"
HourMs == 3600000

\* the instants at which register requests arrive: each the first
\* millisecond after the window opened at the one before
SignupInstantSeq == <<0, SignupWindowMs + 1, 2 * (SignupWindowMs + 1)>>

SignupInstants == {SignupInstantSeq[i] : i \in 1..Len(SignupInstantSeq)}

NoAttempts == [present |-> FALSE, count |-> 0, firstAttempt |-> 0]

\* the value of a field the response body does not have
Undefined == [userId |-> 0, type |-> "undefined", iat |-> 0]

\* AsyncStorage without 'accessToken', 'refreshToken' and 'user'
NoStorage == [pc |-> "loggedOut", accessToken |-> NoToken, refreshToken |-> NoToken,
              userId |-> 0, last |-> "none"]

\* the like and notification rows one run creates
MaxToggles == 3

NoLikeReq == [pc |-> "idle", userId |-> 0, postId |-> 0, authorId |-> 0,
              existingLike |-> 0, like |-> 0, overlapped |-> FALSE]

\* the connections one run makes
MaxSockets == 4

\* activeUsers.get(userId) undefined
NoConnection == 0

NoFollowReq == [pc |-> "idle", followerId |-> 0, followingId |-> 0]

Init ==
    /\ posts = {}
    /\ follows = {}
    /\ likes = {}
    /\ comments = {}
    /\ notifications = {}
    /\ feedCache = [u \in Users |-> NoEntry]
    /\ likesCache = [p \in PostIds |-> -1]
    /\ now = 0
    /\ nextId = 1
    /\ nextCommentId = 1
    /\ writes = 0
    /\ resp = NoResp
    /\ pager = IdlePager
    /\ likeTrack = NoTrack
    /\ repeat = NoRepeat
    /\ redisDown = FALSE
    /\ inflight = [r \in Requests |-> NoRequest]
    /\ accounts = {}
    /\ sessions = {}
    /\ authNow = 0
    /\ pending = [r \in Requests |-> NoPending]
    /\ authResp = NoAuthResp
    /\ authLog = EmptyLog
    /\ attempts = [ip \in Ips |-> NoAttempts]
    /\ rateNow = 0
    /\ mobile = NoStorage
    /\ followRows = {}
    /\ sockets = {}
    /\ activeUsers = [u \in Users |-> NoConnection]
    /\ onlineCount = 0
    /\ socketSeq = 0
    /\ likeRows = {}
    /\ noteRows = {}
    /\ emits = {}
    /\ likeReq = [r \in Requests |-> NoLikeReq]
    /\ likeSeq = 0
    /\ followReq = [r \in Requests |-> NoFollowReq]
    /\ signups = [ip \in Ips |-> NoAttempts]
    /\ signupsPassed = [ip \in Ips |-> [t \in SignupInstants |-> 0]]
    /\ letThrough = [ip \in Ips |-> [t \in RateInstants |-> 0]]

\* ---------------------------------------------------------------- getFeed
FeedResp(userId, cursor, lim, take, page, cached) ==
    [op |-> "getFeed", status |-> 200, viewer |-> userId,
     cursor |-> cursor, limit |-> lim, take |-> take, cached |-> cached,
     posts |-> page.posts, hasMore |-> page.hasMore, nextCursor |-> page.nextCursor,
     isLiked |-> FALSE, likesCount |-> 0, cacheFailed |-> FALSE, postId |-> 0,
     target |-> NoSuchUser]

\* validateQuery answers 400 'Query validation failed'; getFeed is not run
GetFeedRejected(userId, cursor, lim) ==
    /\ ~QueryValid(cursor, lim)
    /\ resp' = [NoResp EXCEPT !.op = "getFeed", !.status = 400, !.limit = lim]
    /\ UNCHANGED <<store, feedCache, likesCache>>

\* While the connection is failing a single Redis command either throws or
\* still succeeds.
OpOutcomes == IF redisDown THEN {TRUE, FALSE} ELSE {FALSE}

\* the try/catch forgotten: the error of redis.get leaves the function
GetCachedFeed_NoCatch(userId, fails) ==
    [threw |-> fails, value |-> IF fails THEN NoEntry ELSE feedCache[userId]]

\* redisUtils.getCachedFeed: the parsed entry, or null when the key is
\* absent or redis.get throws (the error is caught and logged)
GetCachedFeed(userId, fails) ==
    [threw |-> FALSE, value |-> IF fails THEN NoEntry ELSE feedCache[userId]]

\* redisUtils.cacheFeed: setex feed:<userId>; an error is caught and logged
CacheFeed(cache, userId, page, fails) ==
    IF fails THEN cache ELSE [cache EXCEPT ![userId] = page]

\* an error thrown inside the handler: catchAsync passes it to the error
\* handler, which answers 500
GetFeedThrew(userId, cursor, lim, getFails) ==
    /\ QueryValid(cursor, lim)
    /\ cursor = NoCursor
    /\ GetCachedFeed(userId, getFails).threw
    /\ resp' = [NoResp EXCEPT !.op = "getFeed", !.status = 500, !.cacheFailed = TRUE]
    /\ UNCHANGED <<store, feedCache, likesCache>>

\* no cursor and feed:<userId> present: the cached response is returned
GetFeedCached(userId, cursor, lim, getFails) ==
    /\ QueryValid(cursor, lim)
    /\ cursor = NoCursor
    /\ ~GetCachedFeed(userId, getFails).threw
    /\ GetCachedFeed(userId, getFails).value.present
    /\ resp' = FeedResp(userId, cursor, lim, Take(LimitValue(lim)),
                        GetCachedFeed(userId, getFails).value, TRUE)
    /\ UNCHANGED <<store, feedCache, likesCache>>

\* otherwise the page is computed from the store, and cached if cursor-less
GetFeedStore(userId, cursor, lim, getFails, setFails) ==
    /\ QueryValid(cursor, lim)
    /\ cursor = NoCursor => /\ ~GetCachedFeed(userId, getFails).threw
                            /\ ~GetCachedFeed(userId, getFails).value.present
    /\ \E page \in StoreResponses(userId, cursor, Take(LimitValue(lim))) :
          /\ resp' = [FeedResp(userId, cursor, lim, Take(LimitValue(lim)), page, FALSE)
                         EXCEPT !.cacheFailed = cursor = NoCursor /\ (getFails \/ setFails)]
          /\ feedCache' = IF cursor = NoCursor
                          THEN CacheFeed(feedCache, userId, page, setFails)
                          ELSE feedCache
    /\ UNCHANGED <<store, likesCache>>

GetFeed(userId, cursor, lim) ==
    \/ GetFeedRejected(userId, cursor, lim)
    \/ \E getFails \in OpOutcomes : GetFeedThrew(userId, cursor, lim, getFails)
    \/ \E getFails \in OpOutcomes : GetFeedCached(userId, cursor, lim, getFails)
    \/ \E getFails, setFails \in OpOutcomes :
          GetFeedStore(userId, cursor, lim, getFails, setFails)

\* ------------------------------------------------------------- cache keys
\* redisUtils.invalidatePattern(pattern): delete every key the pattern matches
InvalidatePattern(cache, keys) ==
    [u \in Users |-> IF u \in keys THEN NoEntry ELSE cache[u]]

\* the response of a handler other than getFeed: its status code
WriteResp(op, status) == [NoResp EXCEPT !.op = op, !.status = status]

\* the response to a request of `userId` about the post `postId`
PostResp(op, status, userId, postId) ==
    [WriteResp(op, status) EXCEPT !.viewer = userId, !.postId = postId]

\* the sets of keys whose invalidatePattern call can fail (caught and logged)
\* when a handler makes one call per key
FailedKeys(keys) == IF redisDown THEN SUBSET keys ELSE {{}}

\* the same for one call with a pattern matching all of `keys`
FailedPattern(keys) == IF redisDown THEN {{}, keys} ELSE {{}}

\* ------------------------------------------------------------- createPost
\* Post.id is a cuid and Post.createdAt the clock at creation: a new post
\* gets the next id, and the clock reads the same millisecond as at the
\* previous creation or a later one.  Post.content is modelled by its
\* revision: 0 as created, one more after each edit.
NewPostId == nextId

ClockReadings == IF nextId = 1 THEN {now + 1} ELSE {now, now + 1}

\* prisma.follow.findMany({where: {followingId: userId}})
Followers(userId) == {f[1] : f \in {e \in follows : e[2] = userId}}

\* the keys createPost invalidates: feed:<followerId> of each follower
CreatePostInvalidates(userId) == Followers(userId)

CreatePost(userId) ==
    /\ writes < MaxWrites
    /\ \E t \in ClockReadings :
          /\ now' = t
          /\ posts' = posts \cup {[id |-> NewPostId, authorId |-> userId,
                                   content |-> 0, createdAt |-> t]}
    /\ nextId' = nextId + 1
    /\ writes' = writes + 1
    /\ \E failed \in FailedKeys(CreatePostInvalidates(userId)) :
          /\ feedCache' = InvalidatePattern(feedCache,
                                            CreatePostInvalidates(userId) \ failed)
          /\ resp' = [WriteResp("createPost", 201) EXCEPT !.cacheFailed = failed # {}]
    /\ UNCHANGED <<follows, likes, comments, notifications, likesCache, nextCommentId>>

\* ------------------------------------------------------------- updatePost
\* the ownership check forgotten: any user edits the post
UpdatePost_NoOwnerCheck(userId, postId, hasContent) ==
    /\ IF ~PostExists(postId)
       THEN /\ resp' = PostResp("updatePost", 404, userId, postId)
            /\ UNCHANGED <<posts, writes>>
       ELSE /\ writes < MaxWrites
            /\ posts' = (posts \ {PostById(postId)}) \cup
                        {[PostById(postId) EXCEPT
                            !.content = IF hasContent THEN @ + 1 ELSE @]}
            /\ writes' = writes + 1
            /\ resp' = PostResp("updatePost", 200, userId, postId)
    /\ UNCHANGED <<follows, likes, comments, notifications, feedCache, likesCache,
                   now, nextId, nextCommentId>>

\* data.content = content || existingPost.content
UpdatePost(userId, postId, hasContent) ==
    /\ IF ~PostExists(postId)
       THEN /\ resp' = PostResp("updatePost", 404, userId, postId)
            /\ UNCHANGED <<posts, writes>>
       ELSE IF PostById(postId).authorId # userId
       THEN /\ resp' = PostResp("updatePost", 403, userId, postId)
            /\ UNCHANGED <<posts, writes>>
       ELSE /\ writes < MaxWrites
            /\ posts' = (posts \ {PostById(postId)}) \cup
                        {[PostById(postId) EXCEPT
                            !.content = IF hasContent THEN @ + 1 ELSE @]}
            /\ writes' = writes + 1
            /\ resp' = PostResp("updatePost", 200, userId, postId)
    /\ UNCHANGED <<follows, likes, comments, notifications, feedCache, likesCache,
                   now, nextId, nextCommentId>>

\* ------------------------------------------------------------- deletePost
\* the keys deletePost invalidates: feed:*
DeletePostInvalidates == Users

\* prisma.post.delete cascades to the post's comments, likes, notifications
DeletePost(userId, postId) ==
    /\ IF ~PostExists(postId)
       THEN /\ resp' = PostResp("deletePost", 404, userId, postId)
            /\ UNCHANGED <<posts, likes, comments, notifications, feedCache, writes>>
       ELSE IF PostById(postId).authorId # userId
       THEN /\ resp' = PostResp("deletePost", 403, userId, postId)
            /\ UNCHANGED <<posts, likes, comments, notifications, feedCache, writes>>
       ELSE /\ writes < MaxWrites
            /\ posts' = posts \ {PostById(postId)}
            /\ likes' = {l \in likes : l[1] # postId}
            /\ comments' = {c \in comments : c.postId # postId}
            /\ notifications' = {n \in notifications : n.postId # postId}
            /\ writes' = writes + 1
            /\ \E failed \in FailedPattern(DeletePostInvalidates) :
                  /\ feedCache' = InvalidatePattern(feedCache,
                                                    DeletePostInvalidates \ failed)
                  /\ resp' = [PostResp("deletePost", 200, userId, postId)
                                 EXCEPT !.cacheFailed = failed # {}]
    /\ UNCHANGED <<follows, likesCache, now, nextId, nextCommentId>>

\* ------------------------------------------------------------- toggleLike
\* createLikeNotification: one LIKE notification for the author unless the
\* liker is the author; deleting the like cascades to its notification.
LikeNotification(authorId, userId, postId) ==
    [type |-> "LIKE", userId |-> authorId, postId |-> postId, actor |-> userId, ref |-> 0]

\* redisUtils.cacheLikesCount: setex likes:<postId>; an error is caught
CacheLikesCount(cache, postId, count, fails) ==
    IF fails THEN cache ELSE [cache EXCEPT ![postId] = count]

ToggleLike(userId, postId) ==
    /\ IF ~PostExists(postId)
       THEN /\ resp' = WriteResp("toggleLike", 404)
            /\ UNCHANGED <<likes, notifications, likesCache, writes>>
       ELSE /\ writes < MaxWrites
            /\ IF <<postId, userId>> \in likes
               THEN /\ likes' = likes \ {<<postId, userId>>}
                    /\ notifications' = notifications \
                           {LikeNotification(PostById(postId).authorId, userId, postId)}
               ELSE /\ likes' = likes \cup {<<postId, userId>>}
                    /\ notifications' =
                           IF PostById(postId).authorId # userId
                           THEN notifications \cup
                                  {LikeNotification(PostById(postId).authorId, userId, postId)}
                           ELSE notifications
            /\ writes' = writes + 1
            /\ \E fails \in OpOutcomes :
                  /\ likesCache' = CacheLikesCount(likesCache, postId,
                                        Cardinality({l \in likes' : l[1] = postId}), fails)
                  /\ resp' = [WriteResp("toggleLike", 200) EXCEPT
                                 !.isLiked = <<postId, userId>> \in likes',
                                 !.likesCount = Cardinality({l \in likes' : l[1] = postId}),
                                 !.cacheFailed = fails]
    /\ UNCHANGED <<posts, follows, comments, feedCache, now, nextId, nextCommentId>>

\* ---------------------------------------------------------- createComment
CommentNotification(authorId, userId, postId, commentId) ==
    [type |-> "COMMENT", userId |-> authorId, postId |-> postId, actor |-> userId,
     ref |-> commentId]

CreateComment(userId, postId) ==
    /\ IF ~PostExists(postId)
       THEN /\ resp' = WriteResp("createComment", 404)
            /\ UNCHANGED <<comments, notifications, nextCommentId, writes>>
       ELSE /\ writes < MaxWrites
            /\ comments' = comments \cup
                   {[id |-> nextCommentId, postId |-> postId, authorId |-> userId]}
            /\ nextCommentId' = nextCommentId + 1
            /\ notifications' =
                   IF PostById(postId).authorId # userId
                   THEN notifications \cup
                          {CommentNotification(PostById(postId).authorId, userId,
                                               postId, nextCommentId)}
                   ELSE notifications
            /\ writes' = writes + 1
            /\ resp' = WriteResp("createComment", 201)
    /\ UNCHANGED <<posts, follows, likes, feedCache, likesCache, now, nextId>>

\* ------------------------------------------------- followUser, unfollowUser
FollowUser(followerId, followingId) ==
    /\ IF followerId = followingId
       THEN /\ resp' = WriteResp("followUser", 400)
            /\ UNCHANGED <<follows, writes>>
       ELSE IF followingId \notin Users
       THEN /\ resp' = WriteResp("followUser", 404)
            /\ UNCHANGED <<follows, writes>>
       ELSE IF <<followerId, followingId>> \in follows
       THEN /\ resp' = WriteResp("followUser", 400)
            /\ UNCHANGED <<follows, writes>>
       ELSE /\ writes < MaxWrites
            /\ follows' = follows \cup {<<followerId, followingId>>}
            /\ writes' = writes + 1
            /\ resp' = WriteResp("followUser", 200)
    /\ UNCHANGED <<posts, likes, comments, notifications, feedCache, likesCache,
                   now, nextId, nextCommentId>>

UnfollowUser(followerId, followingId) ==
    /\ IF <<followerId, followingId>> \notin follows
       THEN /\ resp' = WriteResp("unfollowUser", 400)
            /\ UNCHANGED <<follows, writes>>
       ELSE /\ writes < MaxWrites
            /\ follows' = follows \ {<<followerId, followingId>>}
            /\ writes' = writes + 1
            /\ resp' = WriteResp("unfollowUser", 200)
    /\ UNCHANGED <<posts, likes, comments, notifications, feedCache, likesCache,
                   now, nextId, nextCommentId>>

\* ------------------------------------------------------------- key expiry
\* redis.setex(key, 300, ...): a feed key disappears when its TTL runs out
ExpireFeed(userId) ==
    /\ feedCache[userId].present
    /\ feedCache' = [feedCache EXCEPT ![userId] = NoEntry]
    /\ UNCHANGED <<store, likesCache, resp, clients, others>>

\* ------------------------------------------------------------------- Next
CursorInputs == {NoCursor} \cup PostIds

\* limits of the requests of the general specification
FeedLimits == {l \in LimitQueries : l.kind = "absent" \/ (l.kind = "int" /\ l.val \in {0, 1, 2})}

\* The server answers one request after the other: a request is handled
\* once the previous response has been sent.
Idle == resp.op = "none"

Deliver ==
    /\ ~Idle
    /\ resp' = NoResp
    /\ UNCHANGED <<store, feedCache, likesCache, clients, others>>

Next ==
    \/ Idle /\ UNCHANGED <<clients, others>>
            /\ \E u \in Users, c \in CursorInputs, l \in FeedLimits : GetFeed(u, c, l)
    \/ Idle /\ UNCHANGED <<clients, others>>
            /\ \E u \in Users : CreatePost(u)
    \/ Idle /\ UNCHANGED <<clients, others>>
            /\ \E u \in Users, p \in PostIds, c \in BOOLEAN : UpdatePost(u, p, c)
    \/ Idle /\ UNCHANGED <<clients, others>>
            /\ \E u \in Users, p \in PostIds : DeletePost(u, p)
    \/ Idle /\ UNCHANGED <<clients, others>>
            /\ \E u \in Users, p \in PostIds : ToggleLike(u, p)
    \/ Idle /\ UNCHANGED <<clients, others>>
            /\ \E u \in Users, p \in PostIds : CreateComment(u, p)
    \/ Idle /\ UNCHANGED <<clients, others>>
            /\ \E u \in Users, t \in Users \cup {NoSuchUser} : FollowUser(u, t)
    \/ Idle /\ UNCHANGED <<clients, others>>
            /\ \E u \in Users, t \in Users : UnfollowUser(u, t)
    \/ Deliver
    \/ \E u \in Users : ExpireFeed(u)

Spec == Init /\ [][Next]_vars

\* ------------------------------------ first-page requests with any limit query
NextLimits ==
    \/ Idle /\ UNCHANGED <<clients, others>>
            /\ \E u \in Users, l \in LimitQueries : GetFeed(u, NoCursor, l)
    \/ Idle /\ UNCHANGED <<clients, others>>
            /\ \E u \in Users : CreatePost(u)
    \/ Idle /\ UNCHANGED <<clients, others>>
            /\ \E u \in Users, p \in PostIds, c \in BOOLEAN : UpdatePost(u, p, c)
    \/ Idle /\ UNCHANGED <<clients, others>>
            /\ \E u \in Users, p \in PostIds : DeletePost(u, p)
    \/ Idle /\ UNCHANGED <<clients, others>>
            /\ \E u \in Users, p \in PostIds : ToggleLike(u, p)
    \/ Idle /\ UNCHANGED <<clients, others>>
            /\ \E u \in Users, p \in PostIds : CreateComment(u, p)
    \/ Idle /\ UNCHANGED <<clients, others>>
            /\ \E u \in Users, t \in Users \cup {NoSuchUser} : FollowUser(u, t)
    \/ Idle /\ UNCHANGED <<clients, others>>
            /\ \E u \in Users, t \in Users : UnfollowUser(u, t)
    \/ Deliver
    \/ \E u \in Users : ExpireFeed(u)

SpecLimits == Init /\ [][NextLimits]_vars

\* ------------------------------------------------------ the paging client
\* A cursor-less request starts a session; a request of the same viewer and
\* limit with the session's nextCursor continues it; hasMore=false ends it;
\* a write to the store abandons it.
PagerAfter(userId, cursor, lim, page) ==
    IF cursor = NoCursor
    THEN [st |-> IF page.hasMore THEN "paging" ELSE "done",
          v |-> userId, limit |-> lim,
          seen |-> SeqIds(page.posts), cursor |-> page.nextCursor]
    ELSE [pager EXCEPT !.st = IF page.hasMore THEN "paging" ELSE "done",
                       !.seen = pager.seen \o SeqIds(page.posts),
                       !.cursor = page.nextCursor]

PagingRequest(userId, cursor, lim) ==
    /\ LimitValid(lim)
    /\ \/ cursor = NoCursor
       \/ /\ pager.st = "paging"
          /\ pager.v = userId /\ pager.limit = lim /\ pager.cursor = cursor

PagingLimits == {l \in LimitQueries : l.kind = "absent" \/ (l.kind = "int" /\ l.val \in {1, 2})}

PagerOnWrite ==
    /\ pager' = IF writes' # writes THEN IdlePager ELSE pager
    /\ UNCHANGED <<likeTrack, repeat, others>>

NextPaging ==
    \/ /\ Idle
       /\ \E u \in Users, c \in CursorInputs, l \in PagingLimits :
             /\ PagingRequest(u, c, l)
             /\ GetFeed(u, c, l)
             /\ pager' = PagerAfter(u, c, l, resp')
       /\ UNCHANGED <<likeTrack, repeat, others>>
    \/ Idle /\ (\E u \in Users : CreatePost(u))
            /\ PagerOnWrite
    \/ Idle /\ (\E u \in Users, p \in PostIds, c \in BOOLEAN : UpdatePost(u, p, c))
            /\ PagerOnWrite
    \/ Idle /\ (\E u \in Users, p \in PostIds : DeletePost(u, p))
            /\ PagerOnWrite
    \/ Idle /\ (\E u \in Users, p \in PostIds : ToggleLike(u, p))
            /\ PagerOnWrite
    \/ Idle /\ (\E u \in Users, p \in PostIds : CreateComment(u, p))
            /\ PagerOnWrite
    \/ Idle /\ (\E u \in Users, t \in Users \cup {NoSuchUser} : FollowUser(u, t))
            /\ PagerOnWrite
    \/ Idle /\ (\E u \in Users, t \in Users : UnfollowUser(u, t))
            /\ PagerOnWrite
    \/ Deliver
    \/ \E u \in Users : ExpireFeed(u)

SpecPaging == Init /\ [][NextPaging]_vars

\* ---------------------------------------------- the like-then-look client
\* A viewer looks at the first page, likes a post of it, looks again,
\* unlikes, looks again; likeTrack keeps what the page showed before the
\* like (pre) and what the first page after each toggle shows.  The client
\* keeps the last response, so there is no Deliver step here.
HasEntry(page, postId) == \E e \in Range(page.posts) : e.id = postId

EntryOf(page, postId) == CHOOSE e \in Range(page.posts) : e.id = postId

TrackAfterFeed(userId, page) ==
    IF likeTrack.v = userId /\ likeTrack.st \in {"liked", "unliked"}
    THEN [likeTrack EXCEPT
             !.st = IF likeTrack.st = "liked" THEN "shownLiked" ELSE "shownUnliked",
             !.seen = HasEntry(page, likeTrack.p),
             !.liked = HasEntry(page, likeTrack.p) /\ EntryOf(page, likeTrack.p).isLiked,
             !.count = IF HasEntry(page, likeTrack.p)
                       THEN EntryOf(page, likeTrack.p).likesCount ELSE 0]
    ELSE likeTrack

TrackAfterToggle(userId, postId) ==
    IF /\ <<postId, userId>> \notin likes
       /\ resp.op = "getFeed" /\ resp.status = 200 /\ resp.viewer = userId
       /\ HasEntry(resp, postId)
    THEN [NoTrack EXCEPT !.st = "liked", !.v = userId, !.p = postId,
                         !.pre = EntryOf(resp, postId).likesCount]
    ELSE IF /\ likeTrack.st = "shownLiked" /\ likeTrack.v = userId /\ likeTrack.p = postId
            /\ <<postId, userId>> \in likes
    THEN [likeTrack EXCEPT !.st = "unliked"]
    ELSE NoTrack

LikeLimits == {l \in LimitQueries : l.kind = "absent" \/ (l.kind = "int" /\ l.val = 1)}

TrackOnWrite ==
    /\ likeTrack' = IF writes' # writes THEN NoTrack ELSE likeTrack
    /\ UNCHANGED <<pager, repeat, others>>

NextLike ==
    \/ /\ \E u \in Users, l \in LikeLimits :
             /\ GetFeed(u, NoCursor, l)
             /\ likeTrack' = TrackAfterFeed(u, resp')
       /\ UNCHANGED <<pager, repeat, others>>
    \/ /\ \E u \in Users, p \in PostIds :
             /\ ToggleLike(u, p)
             /\ likeTrack' = IF writes' # writes THEN TrackAfterToggle(u, p) ELSE likeTrack
       /\ UNCHANGED <<pager, repeat, others>>
    \/ (\E u \in Users : CreatePost(u)) /\ TrackOnWrite
    \/ (\E u \in Users, p \in PostIds, c \in BOOLEAN : UpdatePost(u, p, c)) /\ TrackOnWrite
    \/ (\E u \in Users, p \in PostIds : DeletePost(u, p)) /\ TrackOnWrite
    \/ (\E u \in Users, p \in PostIds : CreateComment(u, p)) /\ TrackOnWrite
    \/ (\E u \in Users, t \in Users \cup {NoSuchUser} : FollowUser(u, t)) /\ TrackOnWrite
    \/ (\E u \in Users, t \in Users : UnfollowUser(u, t)) /\ TrackOnWrite
    \/ \E u \in Users : ExpireFeed(u)

SpecLike == Init /\ [][NextLike]_vars

\* ------------------------------------------------- the asking-twice client
\* repeat keeps the post ids of the first answer to a request and, once the
\* same request has been made again with no write in between, of the latest.
RepeatAfter(userId, cursor, lim, page) ==
    IF repeat.st # "none" /\ repeat.v = userId /\ repeat.cursor = cursor
       /\ repeat.limit = lim
    THEN [repeat EXCEPT !.st = "two", !.second = SeqIds(page.posts)]
    ELSE [st |-> "one", v |-> userId, cursor |-> cursor, limit |-> lim,
          first |-> SeqIds(page.posts), second |-> <<>>]

RepeatOnWrite ==
    /\ repeat' = IF writes' # writes THEN NoRepeat ELSE repeat
    /\ UNCHANGED <<pager, likeTrack, others>>

NextRepeat ==
    \/ /\ Idle
       /\ \E u \in Users, c \in CursorInputs, l \in PagingLimits :
             /\ GetFeed(u, c, l)
             /\ repeat' = RepeatAfter(u, c, l, resp')
       /\ UNCHANGED <<pager, likeTrack, others>>
    \/ Idle /\ (\E u \in Users : CreatePost(u))
            /\ RepeatOnWrite
    \/ Idle /\ (\E u \in Users, p \in PostIds, c \in BOOLEAN : UpdatePost(u, p, c))
            /\ RepeatOnWrite
    \/ Idle /\ (\E u \in Users, p \in PostIds : DeletePost(u, p))
            /\ RepeatOnWrite
    \/ Idle /\ (\E u \in Users, p \in PostIds : ToggleLike(u, p))
            /\ RepeatOnWrite
    \/ Idle /\ (\E u \in Users, p \in PostIds : CreateComment(u, p))
            /\ RepeatOnWrite
    \/ Idle /\ (\E u \in Users, t \in Users \cup {NoSuchUser} : FollowUser(u, t))
            /\ RepeatOnWrite
    \/ Idle /\ (\E u \in Users, t \in Users : UnfollowUser(u, t))
            /\ RepeatOnWrite
    \/ Deliver
    \/ \E u \in Users : ExpireFeed(u)

SpecRepeat == Init /\ [][NextRepeat]_vars

\* ================================================================ accounts
\* JWT_EXPIRES_IN '15m' and JWT_REFRESH_EXPIRES_IN '7d', in seconds
AccessTtl == 900
RefreshTtl == 604800

\* the instants at which requests arrive: two within the lifetime of the
\* first access tokens and one at which those of instant 0 have expired
Instants == {0, 1, AccessTtl}

\* An email or a username as typed is a name in lower or upper case; Joi's
\* lowercase() and toLowerCase() give the lower-case one.
Names == 1..NumUsers

RawNames == [name : Names, upper : BOOLEAN]

ToLowerCase(raw) == [raw EXCEPT !.upper = FALSE]

Passwords == {"Pw1", "Pw2"}

\* bcrypt.hash and bcrypt.compare
HashPassword(password) == <<"bcrypt", password>>

ComparePassword(password, hash) == hash = HashPassword(password)

\* jwt.sign({userId, type}, secret, {expiresIn}): iat is the clock in seconds
GenerateAccessToken(userId) == [userId |-> userId, type |-> "access", iat |-> authNow]

GenerateRefreshToken(userId) == [userId |-> userId, type |-> "refresh", iat |-> authNow]

TokenTtl(type) == IF type = "access" THEN AccessTtl ELSE RefreshTtl

\* jwt.verify(token, secret): the signature matches the secret of `type`
\* and the token has not expired
JwtVerify(token, type) ==
    /\ token # NoToken
    /\ token.type = type
    /\ authNow < token.iat + TokenTtl(token.type)

HasAccount(userId) == \E a \in accounts : a.id = userId

AccountById(userId) == CHOOSE a \in accounts : a.id = userId

SetAccount(userId, field, value) ==
    {IF a.id = userId THEN [a EXCEPT ![field] = value] ELSE a : a \in accounts}

\* authenticate: 401 unless the access token verifies, the user exists and
\* the user's stored refreshToken is not null.  The cached session has no
\* refreshToken field, so the stored one is always read from the table.
Authenticated(token) ==
    /\ JwtVerify(token, "access")
    /\ HasAccount(token.userId)
    /\ AccountById(token.userId).refreshToken # NoToken

\* authenticate caches the session on a miss, before the refreshToken check
SessionsAfterAuthenticate(token) ==
    IF JwtVerify(token, "access") /\ HasAccount(token.userId)
    THEN sessions \cup {token.userId}
    ELSE sessions

AuthResponse(op, status, userId, token) ==
    [NoAuthResp EXCEPT !.op = op, !.status = status, !.userId = userId, !.token = token]

\* ------------------------------------------------------------------ getMe
GetMe(token) ==
    /\ authResp' = AuthResponse("getMe", IF Authenticated(token) THEN 200 ELSE 401,
                                token.userId, token)
    /\ sessions' = SessionsAfterAuthenticate(token)
    /\ UNCHANGED <<accounts, authNow, pending>>

\* ----------------------------------------------------------------- logout
Logout(token) ==
    /\ IF ~Authenticated(token)
       THEN /\ authResp' = AuthResponse("logout", 401, token.userId, token)
            /\ sessions' = SessionsAfterAuthenticate(token)
            /\ UNCHANGED accounts
       ELSE /\ accounts' = SetAccount(token.userId, "refreshToken", NoToken)
            /\ sessions' = sessions \ {token.userId}
            /\ authResp' = AuthResponse("logout", 200, token.userId, token)
    /\ UNCHANGED <<authNow, pending>>

\* --------------------------------------------------------- changePassword
ChangePassword(token, currentPassword, newPassword) ==
    /\ IF ~Authenticated(token)
       THEN /\ authResp' = AuthResponse("changePassword", 401, token.userId, token)
            /\ sessions' = SessionsAfterAuthenticate(token)
            /\ UNCHANGED accounts
       ELSE IF ~ComparePassword(currentPassword, AccountById(token.userId).password)
       THEN /\ authResp' = AuthResponse("changePassword", 401, token.userId, token)
            /\ sessions' = SessionsAfterAuthenticate(token)
            /\ UNCHANGED accounts
       ELSE /\ accounts' = {IF a.id = token.userId
                             THEN [a EXCEPT !.password = HashPassword(newPassword),
                                            !.refreshToken = NoToken]
                             ELSE a : a \in accounts}
            /\ sessions' = sessions \ {token.userId}
            /\ authResp' = AuthResponse("changePassword", 200, token.userId, token)
    /\ UNCHANGED <<authNow, pending>>

\* ------------------------------------------------------------------ login
\* createUserSession: a new token pair, the refresh token stored in the
\* table, the session cached
CreateUserSession(table, userId) ==
    {IF a.id = userId THEN [a EXCEPT !.refreshToken = GenerateRefreshToken(userId)]
                      ELSE a : a \in table}

SessionResponse(op, status, userId, token) ==
    [AuthResponse(op, status, userId, token) EXCEPT
        !.access = GenerateAccessToken(userId),
        !.refresh = GenerateRefreshToken(userId)]

\* findFirst({OR: [{email: identifier.toLowerCase()}, {username: ...}]});
\* an identifier is either a well-formed email or a well-formed username
FindByIdentifier(identifier) ==
    {a \in accounts : IF identifier.kind = "email"
                      THEN a.email = ToLowerCase(identifier.raw)
                      ELSE a.username = ToLowerCase(identifier.raw)}

Login(identifier, password) ==
    /\ IF FindByIdentifier(identifier) = {}
       THEN /\ authResp' = AuthResponse("login", 401, 0, NoToken)
            /\ UNCHANGED <<accounts, sessions>>
       ELSE LET user == CHOOSE a \in FindByIdentifier(identifier) : TRUE
            IN IF ~ComparePassword(password, user.password)
               THEN /\ authResp' = AuthResponse("login", 401, 0, NoToken)
                    /\ UNCHANGED <<accounts, sessions>>
               ELSE /\ accounts' = CreateUserSession(accounts, user.id)
                    /\ sessions' = sessions \cup {user.id}
                    /\ authResp' = SessionResponse("login", 200, user.id, NoToken)
    /\ UNCHANGED <<authNow, pending>>

\* --------------------------------------------------------------- register
\* findFirst({OR: [{email}, {username}]}) on the lower-cased values
ExistingUser(email, username) ==
    {a \in accounts : a.email = email \/ a.username = username}

\* User.email and User.username are unique columns: prisma.user.create
\* fails with P2002 when a row with the same email or username exists
UniqueViolation(email, username) ==
    \E a \in accounts : a.email = email \/ a.username = username

\* the P2002 case forgotten: the error falls to the default
HandlePrismaError_NoP2002(code) ==
    IF code = "P2025" THEN 404
    ELSE IF code \in {"P2003", "P2014"} THEN 400
    ELSE 500

\* handlePrismaError: the status of the ApiError made from a Prisma error
HandlePrismaError(code) ==
    IF code = "P2002" THEN 409
    ELSE IF code = "P2025" THEN 404
    ELSE IF code \in {"P2003", "P2014"} THEN 400
    ELSE 500

\* register up to the findFirst: 409 when a user with the email or the
\* username exists
RegisterFind(r, email, username) ==
    /\ pending[r].pc = "idle"
    /\ IF ExistingUser(ToLowerCase(email), ToLowerCase(username)) # {}
       THEN /\ \E existingUser \in ExistingUser(ToLowerCase(email), ToLowerCase(username)) :
                  authResp' = [AuthResponse("register", 409, 0, NoToken) EXCEPT
                      !.message = IF existingUser.email = ToLowerCase(email)
                                  THEN "Email already registered"
                                  ELSE "Username already taken",
                      !.email = ToLowerCase(email),
                      !.username = ToLowerCase(username)]
            /\ UNCHANGED pending
       ELSE /\ pending' = [pending EXCEPT ![r] =
                   [NoPending EXCEPT !.pc = "create", !.kind = "register",
                                     !.email = ToLowerCase(email),
                                     !.username = ToLowerCase(username)]]
            /\ UNCHANGED authResp
    /\ UNCHANGED <<accounts, sessions, authNow>>

\* register from prisma.user.create on
RegisterCreate(r) ==
    /\ pending[r].pc = "create" /\ pending[r].kind = "register"
    /\ pending' = [pending EXCEPT ![r] = NoPending]
    /\ IF UniqueViolation(pending[r].email, pending[r].username)
       THEN /\ authResp' = [AuthResponse("register", HandlePrismaError("P2002"),
                                          0, NoToken) EXCEPT
                               !.message = "already exists",
                               !.email = pending[r].email,
                               !.username = pending[r].username]
            /\ UNCHANGED <<accounts, sessions>>
       ELSE LET id == Cardinality(accounts) + 1
            IN /\ accounts' = CreateUserSession(
                      accounts \cup {[id |-> id, email |-> pending[r].email,
                                       username |-> pending[r].username,
                                       password |-> HashPassword("Pw1"),
                                       refreshToken |-> NoToken]}, id)
               /\ sessions' = sessions \cup {id}
               /\ authResp' = [SessionResponse("register", 201, id, NoToken) EXCEPT
                                  !.email = pending[r].email,
                                  !.username = pending[r].username]
    /\ UNCHANGED authNow

\* ----------------------------------------------------------- refreshToken
\* refreshToken up to the findUnique: 401 unless the token verifies and
\* equals the refreshToken stored for its user
RefreshFind(r, token) ==
    /\ pending[r].pc = "idle"
    /\ IF \/ ~JwtVerify(token, "refresh")
          \/ ~HasAccount(token.userId)
          \/ AccountById(token.userId).refreshToken # token
       THEN /\ authResp' = AuthResponse("refresh", 401, token.userId, token)
            /\ UNCHANGED pending
       ELSE /\ pending' = [pending EXCEPT ![r] =
                   [NoPending EXCEPT !.pc = "update", !.kind = "refresh",
                                     !.token = token, !.userId = token.userId]]
            /\ UNCHANGED authResp
    /\ UNCHANGED <<accounts, sessions, authNow>>

\* refreshToken from the token generation on: the new refresh token is
\* stored, the session cached, the new pair returned
RefreshUpdate(r) ==
    /\ pending[r].pc = "update" /\ pending[r].kind = "refresh"
    /\ pending' = [pending EXCEPT ![r] = NoPending]
    /\ accounts' = CreateUserSession(accounts, pending[r].userId)
    /\ sessions' = sessions \cup {pending[r].userId}
    /\ authResp' = SessionResponse("refresh", 200, pending[r].userId, pending[r].token)
    /\ UNCHANGED authNow

\* ------------------------------------------------------------------ clock
Tick ==
    /\ \E t \in Instants : t > authNow /\ authNow' = t
    /\ UNCHANGED <<accounts, sessions, pending, authResp, authLog, feedVars, rateVars, mobileVars, restVars>>

\* ------------------------------------------------------- the auth endpoints
\* the endpoints whose success writes the User table
AuthWriters == {"register", "login", "refresh", "logout", "changePassword"}

\* what has been issued and used, after the response `r` of a step
LogAfter(r) ==
    [issued |-> IF r.access # NoToken
                THEN authLog.issued \cup {r.access, r.refresh} ELSE authLog.issued,
     revoked |-> IF r.op = "logout" /\ r.status = 200
                 THEN authLog.revoked \cup
                        {t \in authLog.issued : t.userId = r.userId /\ t.type = "access"}
                 ELSE authLog.revoked,
     stale |-> IF r.op = "changePassword" /\ r.status = 200
               THEN authLog.stale \cup {t \in authLog.issued : t.userId = r.userId}
               ELSE IF r.op = "login" /\ r.status = 200
               THEN {t \in authLog.stale : t.userId # r.userId}
               ELSE authLog.stale,
     spent |-> IF r.op = "refresh" /\ r.status = 200
               THEN authLog.spent \cup {r.token} ELSE authLog.spent,
     writes |-> IF r.op \in AuthWriters /\ r.status \in {200, 201}
                THEN authLog.writes + 1 ELSE authLog.writes]

AuthIdle == authResp.op = "none"

AuthDeliver ==
    /\ ~AuthIdle
    /\ authResp' = NoAuthResp
    /\ UNCHANGED <<accounts, sessions, authNow, pending, authLog, feedVars, rateVars, mobileVars, restVars>>

\* a request handled with the previous response sent; the log follows
Handled ==
    /\ AuthIdle
    /\ authLog' = LogAfter(authResp')
    /\ authLog'.writes <= MaxAuthWrites
    /\ UNCHANGED <<feedVars, rateVars, mobileVars, restVars>>

\* user k registers with email k and username k, and logs in by username
OwnName(k) == [name |-> k, upper |-> FALSE]

NextAuth ==
    \/ (\E r \in Requests, k \in Names : RegisterFind(r, OwnName(k), OwnName(k))) /\ Handled
    \/ (\E r \in Requests : RegisterCreate(r)) /\ Handled
    \/ (\E k \in Names, pw \in Passwords :
            Login([kind |-> "username", raw |-> OwnName(k)], pw)) /\ Handled
    \/ (\E r \in Requests, t \in authLog.issued : RefreshFind(r, t)) /\ Handled
    \/ (\E r \in Requests : RefreshUpdate(r)) /\ Handled
    \/ (\E t \in authLog.issued : Logout(t)) /\ Handled
    \/ (\E t \in authLog.issued : GetMe(t)) /\ Handled
    \/ (\E t \in authLog.issued, cur, new \in Passwords : ChangePassword(t, cur, new))
          /\ Handled
    \/ Tick
    \/ AuthDeliver

SpecAuth == Init /\ [][NextAuth]_vars

\* ------------------------------------------- registrations of any spelling
NextRegister ==
    \/ (\E r \in Requests, email, username \in RawNames :
            RegisterFind(r, email, username)) /\ Handled
    \/ (\E r \in Requests : RegisterCreate(r)) /\ Handled
    \/ AuthDeliver

SpecRegister == Init /\ [][NextRegister]_vars

\* ------------------------------------------------------------ mobile client
\* a request of the app handled by the server with the previous response
\* sent; the app acts on the response in the same step
Received ==
    /\ AuthIdle
    /\ authLog' = LogAfter(authResp')
    /\ authLog'.writes <= MaxAuthWrites
    /\ UNCHANGED <<feedVars, rateVars, restVars>>

\* res.json({status, message, data: {accessToken, refreshToken}})
ResponseBody(r) ==
    [status |-> IF r.status \in {200, 201} THEN "success" ELSE "error",
     message |-> r.message,
     data |-> [accessToken |-> r.access, refreshToken |-> r.refresh]]

\* const { field } = object
Destructure(object, field) ==
    IF field \in DOMAIN object THEN object[field] ELSE Undefined

\* AsyncStorage.multiRemove(['accessToken', 'refreshToken', 'user'])
MultiRemove(last) == [NoStorage EXCEPT !.last = last]

\* the register thunk, the request sent: register up to the findFirst
MobileRegister ==
    /\ mobile.pc = "loggedOut" /\ mobile.last = "none"
    /\ RegisterFind(1, OwnName(1), OwnName(1))
    /\ Received
    /\ mobile' = IF authResp'.op = "register"
                 THEN [mobile EXCEPT !.last = "rejected"]
                 ELSE [mobile EXCEPT !.pc = "register"]

\* the register thunk, the response received: the tokens are stored
MobileRegistered ==
    /\ mobile.pc = "register"
    /\ RegisterCreate(1)
    /\ Received
    /\ mobile' = IF authResp'.status = 201
                 THEN [mobile EXCEPT !.pc = "ready",
                          !.accessToken = Destructure(ResponseBody(authResp').data,
                                                      "accessToken"),
                          !.refreshToken = Destructure(ResponseBody(authResp').data,
                                                       "refreshToken"),
                          !.userId = authResp'.userId]
                 ELSE [mobile EXCEPT !.pc = "loggedOut", !.last = "rejected"]

\* a request through apiClient; on 401 the response interceptor sets
\* _retry and reads the refresh token
MobileRequest ==
    /\ mobile.pc = "ready"
    /\ GetMe(mobile.accessToken)
    /\ Received
    /\ mobile' = IF authResp'.status # 401 THEN [mobile EXCEPT !.last = "ok"]
                 ELSE IF mobile.refreshToken = NoToken THEN MultiRemove("cleared")
                 ELSE [mobile EXCEPT !.pc = "refresh"]

\* axios.post('/auth/refresh', {refreshToken}): refreshToken up to the
\* findUnique; a 401 is thrown into the catch, which clears the tokens
MobileRefresh ==
    /\ mobile.pc = "refresh"
    /\ RefreshFind(1, mobile.refreshToken)
    /\ Received
    /\ mobile' = IF authResp'.op = "refresh" THEN MultiRemove("cleared")
                 ELSE [mobile EXCEPT !.pc = "refreshed"]

\* the refresh response received: const { accessToken } = response.data;
\* AsyncStorage.setItem('accessToken', accessToken).  setItem of a value
\* that is not a string rejects on some platforms (the catch clears the
\* tokens) and stores it on others
MobileRefreshed ==
    /\ mobile.pc = "refreshed"
    /\ RefreshUpdate(1)
    /\ Received
    /\ LET accessToken == Destructure(ResponseBody(authResp'), "accessToken")
       IN \E rejects \in IF accessToken = Undefined THEN BOOLEAN ELSE {FALSE} :
             mobile' = IF rejects THEN MultiRemove("cleared")
                       ELSE [mobile EXCEPT !.pc = "retry", !.accessToken = accessToken]

\* apiClient(originalRequest) with the new Authorization header; _retry is
\* set, so a second 401 is passed to the caller
MobileRetry ==
    /\ mobile.pc = "retry"
    /\ GetMe(mobile.accessToken)
    /\ Received
    /\ mobile' = [mobile EXCEPT !.pc = "ready",
                     !.last = IF authResp'.status = 401 THEN "retry401" ELSE "retried"]

\* the same user on another device
OtherDevice ==
    /\ \/ Login([kind |-> "username", raw |-> OwnName(1)], "Pw1")
       \/ \E t \in authLog.issued \ {mobile.accessToken} : Logout(t)
    /\ Handled

NextClient ==
    \/ MobileRegister
    \/ MobileRegistered
    \/ MobileRequest
    \/ MobileRefresh
    \/ MobileRefreshed
    \/ MobileRetry
    \/ OtherDevice
    \/ Tick
    \/ AuthDeliver

SpecClient == Init /\ [][NextClient]_vars

\* ------------------------------------------------------- login rate limit
\* authRateLimit: "Clean old attempts": entries whose window has passed
\* are deleted
CleanOldAttempts(table) ==
    [ip \in Ips |-> IF table[ip].present /\ rateNow - table[ip].firstAttempt > WindowMs
                    THEN NoAttempts ELSE table[ip]]

\* the request is passed on to the next middleware
RateLimitPasses(ip) ==
    \/ ~CleanOldAttempts(attempts)[ip].present
    \/ CleanOldAttempts(attempts)[ip].count < MaxAttempts

AttemptsAfter(ip) ==
    LET cleaned == CleanOldAttempts(attempts)
    IN IF ~cleaned[ip].present
       THEN [cleaned EXCEPT ![ip] = [present |-> TRUE, count |-> 1,
                                     firstAttempt |-> rateNow]]
       ELSE IF cleaned[ip].count >= MaxAttempts
       THEN cleaned
       ELSE [cleaned EXCEPT ![ip].count = @ + 1]

\* POST /api/auth/login: loginRateLimit, then login
LoginRoute(ip, identifier, password) ==
    /\ attempts' = AttemptsAfter(ip)
    /\ IF RateLimitPasses(ip)
       THEN /\ letThrough' = [letThrough EXCEPT ![ip][rateNow] = @ + 1]
            /\ Login(identifier, password)
       ELSE /\ authResp' = AuthResponse("login", 429, 0, NoToken)
            /\ UNCHANGED <<letThrough, accounts, sessions, authNow, pending>>
    /\ UNCHANGED <<rateNow, authLog, feedVars, mobileVars, restVars>>

RateTick ==
    /\ \E t \in RateInstants : t > rateNow /\ rateNow' = t
    /\ UNCHANGED <<attempts, letThrough, authVars, feedVars, mobileVars, restVars>>

RateDeliver ==
    /\ ~AuthIdle
    /\ authResp' = NoAuthResp
    /\ UNCHANGED <<accounts, sessions, authNow, pending, authLog, feedVars, rateVars, mobileVars, restVars>>

NextRateLimit ==
    \/ AuthIdle /\ \E ip \in Ips :
          LoginRoute(ip, [kind |-> "username", raw |-> OwnName(1)], "Pw1")
    \/ RateTick
    \/ RateDeliver

SpecRateLimit == Init /\ [][NextRateLimit]_vars

\* ---------------------------------------------------- register rate limit
\* authRateLimit(maxAttempts, windowMs) on a request of `ip`: whether it is
\* passed on, and the Map afterwards
AuthRateLimit(table, ip, maxAttempts, windowMs) ==
    LET cleaned == [k \in Ips |->
                       IF table[k].present /\ rateNow - table[k].firstAttempt > windowMs
                       THEN NoAttempts ELSE table[k]]
    IN IF ~cleaned[ip].present
       THEN [passes |-> TRUE,
             table |-> [cleaned EXCEPT ![ip] = [present |-> TRUE, count |-> 1,
                                                firstAttempt |-> rateNow]]]
       ELSE IF cleaned[ip].count >= maxAttempts
       THEN [passes |-> FALSE, table |-> cleaned]
       ELSE [passes |-> TRUE, table |-> [cleaned EXCEPT ![ip].count = @ + 1]]

\* POST /api/auth/register: registerRateLimit, then register up to the
\* findFirst
RegisterRoute(ip, r, email, username) ==
    LET limit == AuthRateLimit(signups, ip, SignupMaxAttempts, SignupWindowMs)
    IN /\ AuthIdle
       /\ signups' = limit.table
       /\ IF limit.passes
          THEN /\ signupsPassed' = [signupsPassed EXCEPT ![ip][rateNow] = @ + 1]
               /\ RegisterFind(r, email, username)
          ELSE /\ authResp' = AuthResponse("register", 429, 0, NoToken)
               /\ UNCHANGED <<signupsPassed, accounts, sessions, authNow, pending>>
       /\ authLog' = LogAfter(authResp')
       /\ UNCHANGED <<feedVars, rateVars, mobileVars, followVars, toggleVars,
                      presenceVars>>

SignupTick ==
    /\ \E t \in SignupInstants : t > rateNow /\ rateNow' = t
    /\ UNCHANGED <<attempts, letThrough, authVars, feedVars, mobileVars, restVars>>

NextSignup ==
    \/ \E ip \in Ips, k \in Names : RegisterRoute(ip, 1, OwnName(k), OwnName(k))
    \/ RegisterCreate(1) /\ Handled
    \/ SignupTick
    \/ AuthDeliver

SpecSignup == Init /\ [][NextSignup]_vars

\* ----------------------------------------- concurrent follows and unfollows
\* prisma.follow.findUnique({where: {followerId_followingId}})
ExistingFollow(followerId, followingId) ==
    {f \in followRows : f.followerId = followerId /\ f.followingId = followingId}

\* the (follower, followee) pairs of a set of rows
FollowPairs(rows) == {<<f.followerId, f.followingId>> : f \in rows}

FollowResp(op, status, followerId, followingId) ==
    [WriteResp(op, status) EXCEPT !.viewer = followerId, !.target = followingId]

\* the state the follow steps leave alone
besideFollow == <<posts, likes, comments, notifications, feedCache, likesCache, now,
                  nextId, nextCommentId, clients, redisDown, raceVars, authVars,
                  rateVars, mobileVars, signupVars, toggleVars, presenceVars>>

\* the check "Can't follow yourself" left out
FollowCheck_NoSelfCheck(r, followerId, followingId) ==
    /\ Idle
    /\ followReq[r].pc = "idle"
    /\ IF followingId \notin Users
       THEN /\ resp' = FollowResp("followUser", 404, followerId, followingId)
            /\ UNCHANGED followReq
       ELSE IF ExistingFollow(followerId, followingId) # {}
       THEN /\ resp' = FollowResp("followUser", 400, followerId, followingId)
            /\ UNCHANGED followReq
       ELSE /\ followReq' = [followReq EXCEPT ![r] =
                   [pc |-> "create", followerId |-> followerId,
                    followingId |-> followingId]]
            /\ UNCHANGED resp
    /\ UNCHANGED <<follows, followRows, writes, besideFollow>>

\* followUser up to the second findUnique
FollowCheck(r, followerId, followingId) ==
    /\ Idle
    /\ followReq[r].pc = "idle"
    /\ IF followerId = followingId
       THEN /\ resp' = FollowResp("followUser", 400, followerId, followingId)
            /\ UNCHANGED followReq
       ELSE IF followingId \notin Users
       THEN /\ resp' = FollowResp("followUser", 404, followerId, followingId)
            /\ UNCHANGED followReq
       ELSE IF ExistingFollow(followerId, followingId) # {}
       THEN /\ resp' = FollowResp("followUser", 400, followerId, followingId)
            /\ UNCHANGED followReq
       ELSE /\ followReq' = [followReq EXCEPT ![r] =
                   [pc |-> "create", followerId |-> followerId,
                    followingId |-> followingId]]
            /\ UNCHANGED resp
    /\ UNCHANGED <<follows, followRows, writes, besideFollow>>

\* @@unique([followerId, followingId]): the insert is refused
FollowUniqueViolation(followerId, followingId) ==
    ExistingFollow(followerId, followingId) # {}

\* followUser from prisma.follow.create on
FollowCreate(r) ==
    LET q == followReq[r]
    IN /\ Idle
       /\ q.pc = "create"
       /\ followReq' = [followReq EXCEPT ![r] = NoFollowReq]
       /\ IF FollowUniqueViolation(q.followerId, q.followingId)
          THEN /\ resp' = FollowResp("followUser", HandlePrismaError("P2002"),
                                     q.followerId, q.followingId)
               /\ UNCHANGED <<follows, followRows, writes>>
          ELSE /\ writes < MaxWrites
               /\ followRows' = followRows \cup
                      {[id |-> writes + 1, followerId |-> q.followerId,
                        followingId |-> q.followingId]}
               /\ follows' = FollowPairs(followRows')
               /\ writes' = writes + 1
               /\ resp' = FollowResp("followUser", 200, q.followerId, q.followingId)
       /\ UNCHANGED besideFollow

\* unfollowUser up to the findUnique
UnfollowCheck(r, followerId, followingId) ==
    /\ Idle
    /\ followReq[r].pc = "idle"
    /\ IF ExistingFollow(followerId, followingId) = {}
       THEN /\ resp' = FollowResp("unfollowUser", 400, followerId, followingId)
            /\ UNCHANGED followReq
       ELSE /\ followReq' = [followReq EXCEPT ![r] =
                   [pc |-> "delete", followerId |-> followerId,
                    followingId |-> followingId]]
            /\ UNCHANGED resp
    /\ UNCHANGED <<follows, followRows, writes, besideFollow>>

\* unfollowUser from prisma.follow.delete on; deleting a row that is gone
\* raises P2025
UnfollowDelete(r) ==
    LET q == followReq[r]
    IN /\ Idle
       /\ q.pc = "delete"
       /\ followReq' = [followReq EXCEPT ![r] = NoFollowReq]
       /\ IF ExistingFollow(q.followerId, q.followingId) = {}
          THEN /\ resp' = FollowResp("unfollowUser", HandlePrismaError("P2025"),
                                     q.followerId, q.followingId)
               /\ UNCHANGED <<follows, followRows, writes>>
          ELSE /\ writes < MaxWrites
               /\ followRows' = followRows \ ExistingFollow(q.followerId, q.followingId)
               /\ follows' = FollowPairs(followRows')
               /\ writes' = writes + 1
               /\ resp' = FollowResp("unfollowUser", 200, q.followerId, q.followingId)
       /\ UNCHANGED besideFollow

NextFollow ==
    \/ \E r \in Requests, u \in Users, t \in Users \cup {NoSuchUser} : FollowCheck(r, u, t)
    \/ \E r \in Requests : FollowCreate(r)
    \/ \E r \in Requests, u \in Users, t \in Users : UnfollowCheck(r, u, t)
    \/ \E r \in Requests : UnfollowDelete(r)
    \/ Deliver

SpecFollow == Init /\ [][NextFollow]_vars

\* ------------------------------------------------------ concurrent toggles
\* prisma.like.findUnique({where: {postId_userId}}): the id of the row, 0
\* when there is none
ExistingLike(rows, postId, userId) ==
    IF \E l \in rows : l.postId = postId /\ l.userId = userId
    THEN (CHOOSE l \in rows : l.postId = postId /\ l.userId = userId).id
    ELSE 0

LikePairs(rows) == {<<l.postId, l.userId>> : l \in rows}

LikeCount(rows, postId) == Cardinality({l \in rows : l.postId = postId})

\* the unlike branch left out: a row is created in both cases
LikeRowsAfter_AlwaysCreates(rows, existingLike, postId, userId, id) ==
    rows \cup {[id |-> id, postId |-> postId, userId |-> userId]}

\* prisma.like.delete({where: {id: existingLike.id}}) when a like was found,
\* prisma.like.create({data: {postId, userId}}) otherwise
LikeRowsAfter(rows, existingLike, postId, userId, id) ==
    IF existingLike # 0
    THEN {l \in rows : l.id # existingLike}
    ELSE rows \cup {[id |-> id, postId |-> postId, userId |-> userId]}

\* Notification.like onDelete: Cascade: the notifications whose like is gone
\* are deleted
CascadeLike(notes, rows) == {n \in notes : \E l \in rows : l.id = n.likeId}

\* the LIKE notifications as the feed model holds them
NotificationsOf(notes) ==
    {LikeNotification(n.userId, n.actor, n.postId) : n \in notes}

\* the state the toggleLike steps leave alone
besideToggle == <<posts, follows, comments, feedCache, now, nextId, nextCommentId,
                  writes, clients, redisDown, raceVars, authVars, rateVars,
                  mobileVars, signupVars, followVars, presenceVars>>

ToggleResp(status, q, isLiked, likesCount) ==
    [PostResp("toggleLike", status, q.userId, q.postId) EXCEPT
        !.isLiked = isLiked, !.likesCount = likesCount]

\* toggleLike up to the second findUnique
ToggleLookup(r, userId, postId) ==
    /\ Idle
    /\ likeReq[r].pc = "idle"
    /\ IF ~PostExists(postId)
       THEN /\ resp' = PostResp("toggleLike", 404, userId, postId)
            /\ UNCHANGED likeReq
       ELSE /\ likeReq' = [likeReq EXCEPT ![r] =
                   [NoLikeReq EXCEPT !.pc = "write", !.userId = userId,
                       !.postId = postId, !.authorId = PostById(postId).authorId,
                       !.existingLike = ExistingLike(likeRows, postId, userId)]]
            /\ UNCHANGED resp
    /\ UNCHANGED <<likes, notifications, likesCache, likeRows, noteRows, emits, likeSeq,
                   besideToggle>>

\* the requests in progress on the same post and user as `r` have been
\* overtaken by its write
Overtake(r, next) ==
    [k \in Requests |->
        IF k = r THEN next
        ELSE IF /\ likeReq[k].pc # "idle"
                /\ likeReq[k].postId = likeReq[r].postId
                /\ likeReq[k].userId = likeReq[r].userId
        THEN [likeReq[k] EXCEPT !.overlapped = TRUE]
        ELSE likeReq[k]]

\* toggleLike: prisma.like.delete or prisma.like.create.  A delete of a row
\* that is gone raises P2025; a create of a second row for the post and
\* user violates @@unique([postId, userId]) and raises P2002
ToggleWrite(r) ==
    LET q == likeReq[r]
        current == ExistingLike(likeRows, q.postId, q.userId)
    IN /\ Idle
       /\ q.pc = "write"
       /\ IF q.existingLike # 0 /\ current # q.existingLike
          THEN /\ resp' = ToggleResp(HandlePrismaError("P2025"), q, FALSE, 0)
               /\ likeReq' = [likeReq EXCEPT ![r] = NoLikeReq]
               /\ UNCHANGED <<likes, notifications, likeRows, noteRows, likeSeq>>
          ELSE IF q.existingLike = 0 /\ current # 0
          THEN /\ resp' = ToggleResp(HandlePrismaError("P2002"), q, FALSE, 0)
               /\ likeReq' = [likeReq EXCEPT ![r] = NoLikeReq]
               /\ UNCHANGED <<likes, notifications, likeRows, noteRows, likeSeq>>
          ELSE /\ likeSeq < MaxToggles
               /\ likeSeq' = likeSeq + 1
               /\ likeRows' = LikeRowsAfter(likeRows, q.existingLike, q.postId,
                                            q.userId, likeSeq')
               /\ noteRows' = CascadeLike(noteRows, likeRows')
               /\ likes' = LikePairs(likeRows')
               /\ notifications' = NotificationsOf(noteRows')
               /\ likeReq' = Overtake(r, [q EXCEPT !.pc = "count",
                                  !.like = IF q.existingLike = 0 THEN likeSeq' ELSE 0])
               /\ UNCHANGED resp
       /\ UNCHANGED <<likesCache, emits, besideToggle>>

\* the check for one's own post left out
CreateLikeNotification_NoOwnCheck(notes, rows, postAuthorId, likerId, postId, likeId) ==
    IF ~(\E l \in rows : l.id = likeId)
    THEN notes
    ELSE notes \cup {[type |-> "LIKE", userId |-> postAuthorId, postId |-> postId,
                      likeId |-> likeId, actor |-> likerId]}

\* createLikeNotification: nothing for one's own post; the create fails
\* when the like is gone (likeId references Like) and the error is caught
CreateLikeNotification(notes, rows, postAuthorId, likerId, postId, likeId) ==
    IF postAuthorId = likerId \/ ~(\E l \in rows : l.id = likeId)
    THEN notes
    ELSE notes \cup {[type |-> "LIKE", userId |-> postAuthorId, postId |-> postId,
                      likeId |-> likeId, actor |-> likerId]}

\* toggleLike from prisma.like.count on: the notification of a new like,
\* its emit to the room of the author, the cached count, the response
ToggleCount(r) ==
    LET q == likeReq[r]
        likesCount == LikeCount(likeRows, q.postId)
    IN /\ Idle
       /\ q.pc = "count"
       /\ likeReq' = [likeReq EXCEPT ![r] = NoLikeReq]
       /\ noteRows' = IF q.like # 0
                      THEN CreateLikeNotification(noteRows, likeRows, q.authorId,
                                                  q.userId, q.postId, q.like)
                      ELSE noteRows
       /\ emits' = emits \cup {[room |-> n.userId, event |-> "notification:new",
                                 likeId |-> n.likeId] : n \in noteRows' \ noteRows}
       /\ notifications' = NotificationsOf(noteRows')
       /\ \E fails \in OpOutcomes :
             /\ likesCache' = CacheLikesCount(likesCache, q.postId, likesCount, fails)
             /\ resp' = [ToggleResp(200, q, q.like # 0, likesCount) EXCEPT
                            !.cacheFailed = fails]
       /\ UNCHANGED <<likes, likeRows, likeSeq, besideToggle>>

\* user 1 writes one post; every user toggles their like on it
NextToggle ==
    \/ Idle /\ posts = {} /\ CreatePost(1) /\ UNCHANGED <<clients, others>>
    \/ \E r \in Requests, u \in Users, p \in PostIds : ToggleLookup(r, u, p)
    \/ \E r \in Requests : ToggleWrite(r)
    \/ \E r \in Requests : ToggleCount(r)
    \/ Deliver

SpecToggle == Init /\ [][NextToggle]_vars

\* ---------------------------------------------------------------- presence
\* the state the socket handlers leave alone
besidePresence == <<feedVars, authVars, rateVars, mobileVars, signupVars, followVars,
                    toggleVars>>

\* activeUsers.size
GetOnlineUsersCount(map) == Cardinality({u \in Users : map[u] # NoConnection})

\* activeUsers.has(userId)
IsUserOnline(userId) == activeUsers[userId] # NoConnection

\* io.on('connection'): activeUsers.set(user.id, {socketId, ...});
\* socket.emit('online:count', activeUsers.size)
Connection(userId) ==
    /\ socketSeq < MaxSockets
    /\ socketSeq' = socketSeq + 1
    /\ sockets' = sockets \cup {[id |-> socketSeq', userId |-> userId]}
    /\ activeUsers' = [activeUsers EXCEPT ![userId] = socketSeq']
    /\ onlineCount' = GetOnlineUsersCount(activeUsers')
    /\ UNCHANGED besidePresence

\* socket.on('disconnect'): activeUsers.delete(user.id);
\* io.emit('online:count', activeUsers.size)
Disconnect(socket) ==
    /\ socket \in sockets
    /\ sockets' = sockets \ {socket}
    /\ activeUsers' = [activeUsers EXCEPT ![socket.userId] = NoConnection]
    /\ onlineCount' = GetOnlineUsersCount(activeUsers')
    /\ UNCHANGED <<socketSeq, besidePresence>>

NextPresence ==
    \/ \E u \in Users : Connection(u)
    \/ \E socket \in sockets : Disconnect(socket)

SpecPresence == Init /\ [][NextPresence]_vars

\* ------------------------------------------------ requests during an outage
\* The Redis connection starts and stops failing at any time.
RedisFails ==
    /\ ~redisDown
    /\ redisDown' = TRUE
    /\ UNCHANGED <<store, feedCache, likesCache, resp, clients, raceVars, authVars, rateVars, mobileVars, restVars>>

RedisRecovers ==
    /\ redisDown
    /\ redisDown' = FALSE
    /\ UNCHANGED <<store, feedCache, likesCache, resp, clients, raceVars, authVars, rateVars, mobileVars, restVars>>

NextOutage ==
    \/ Idle /\ UNCHANGED <<clients, others>>
            /\ \E u \in Users, c \in CursorInputs, l \in LikeLimits : GetFeed(u, c, l)
    \/ Idle /\ UNCHANGED <<clients, others>>
            /\ \E u \in Users : CreatePost(u)
    \/ Idle /\ UNCHANGED <<clients, others>>
            /\ \E u \in Users, p \in PostIds : DeletePost(u, p)
    \/ Idle /\ UNCHANGED <<clients, others>>
            /\ \E u \in Users, p \in PostIds : ToggleLike(u, p)
    \/ Idle /\ UNCHANGED <<clients, others>>
            /\ \E u \in Users, t \in Users : FollowUser(u, t)
    \/ RedisFails
    \/ RedisRecovers
    \/ Deliver
    \/ \E u \in Users : ExpireFeed(u)

SpecOutage == Init /\ [][NextOutage]_vars

\* --------------------------------------- getFeed requests handled concurrently
\* A cursor-less getFeed with the default limit runs in three steps, one per
\* await: getCachedFeed, the store queries, cacheFeed and the response.
\* Other requests run between these steps.  dirty records that the store
\* was written after the request started.
RaceStart(r, userId) ==
    /\ inflight[r].pc = "idle"
    /\ inflight' = [inflight EXCEPT ![r] = [NoRequest EXCEPT !.pc = "lookup",
                                                             !.viewer = userId]]
    /\ UNCHANGED <<store, feedCache, likesCache, resp, clients, redisDown, authVars, rateVars, mobileVars, restVars>>

RaceLookup(r) ==
    /\ inflight[r].pc = "lookup"
    /\ \E getFails \in OpOutcomes :
          LET cached == GetCachedFeed(inflight[r].viewer, getFails).value
          IN inflight' = [inflight EXCEPT ![r] =
                 IF cached.present
                 THEN [@ EXCEPT !.pc = "done", !.page = cached]
                 ELSE [@ EXCEPT !.pc = "query", !.missed = TRUE]]
    /\ UNCHANGED <<store, feedCache, likesCache, resp, clients, redisDown, authVars, rateVars, mobileVars, restVars>>

RaceQuery(r) ==
    /\ inflight[r].pc = "query"
    /\ \E page \in StoreResponses(inflight[r].viewer, NoCursor, Take(DefaultLimit)) :
          inflight' = [inflight EXCEPT ![r] = [@ EXCEPT !.pc = "cache", !.page = page]]
    /\ UNCHANGED <<store, feedCache, likesCache, resp, clients, redisDown, authVars, rateVars, mobileVars, restVars>>

RaceCache(r) ==
    /\ inflight[r].pc = "cache"
    /\ \E setFails \in OpOutcomes :
          feedCache' = CacheFeed(feedCache, inflight[r].viewer, inflight[r].page, setFails)
    /\ inflight' = [inflight EXCEPT ![r] = [@ EXCEPT !.pc = "done"]]
    /\ UNCHANGED <<store, likesCache, resp, clients, redisDown, authVars, rateVars, mobileVars, restVars>>

\* both responses have been sent
RaceCollect ==
    /\ \A r \in Requests : inflight[r].pc = "done"
    /\ inflight' = [r \in Requests |-> NoRequest]
    /\ UNCHANGED <<store, feedCache, likesCache, resp, clients, redisDown, authVars, rateVars, mobileVars, restVars>>

\* a write to the store marks every request that has started
MarkDirty ==
    inflight' = [r \in Requests |->
                    IF inflight[r].pc # "idle" /\ writes' # writes
                    THEN [inflight[r] EXCEPT !.dirty = TRUE]
                    ELSE inflight[r]]

NextRace ==
    \/ \E r \in Requests, u \in Users : RaceStart(r, u)
    \/ \E r \in Requests : RaceLookup(r)
    \/ \E r \in Requests : RaceQuery(r)
    \/ \E r \in Requests : RaceCache(r)
    \/ RaceCollect
    \/ Idle /\ (\E u \in Users : CreatePost(u))
            /\ MarkDirty /\ UNCHANGED <<clients, redisDown, authVars, rateVars, mobileVars, restVars>>
    \/ Idle /\ (\E u \in Users, p \in PostIds : DeletePost(u, p))
            /\ MarkDirty /\ UNCHANGED <<clients, redisDown, authVars, rateVars, mobileVars, restVars>>
    \/ Idle /\ (\E u \in Users, t \in Users : FollowUser(u, t))
            /\ MarkDirty /\ UNCHANGED <<clients, redisDown, authVars, rateVars, mobileVars, restVars>>
    \/ Deliver

SpecRace == Init /\ [][NextRace]_vars

\* ================================================================= claims
FeedAnswered == resp.op = "getFeed" /\ resp.status = 200

PageOf(r) == [present |-> TRUE, posts |-> r.posts, hasMore |-> r.hasMore,
              nextCursor |-> r.nextCursor]

Eligible(userId) == WhereClause(userId, NoCursor)

IsPermutationOf(seq, S) ==
    /\ Len(seq) = Cardinality(S)
    /\ Range(seq) = S

\* C1 (as stated): a paging session that ran from cursor-less to
\* hasMore=false with no write in between has returned every post authored
\* by the viewer or by a user the viewer follows exactly once.
C1_FeedCompleteness ==
    pager.st = "done" =>
        IsPermutationOf(pager.seen, {p.id : p \in Eligible(pager.v)})

\* C2 (as stated): the posts and pagination of every getFeed response equal
\* what the store path (cache disabled) answers for the same request.
C2_CacheTransparency ==
    FeedAnswered => PageOf(resp) \in StoreResponses(resp.viewer, resp.cursor, resp.take)

\* C3 (as stated): a step that creates or deletes a post of author A leaves
\* no first-page cache entry for A nor for any follower of A.
C3_InvalidationOnPostWrites ==
    [][posts' # posts /\ {p.id : p \in posts'} # {p.id : p \in posts} =>
          \A p \in (posts' \ posts) \cup (posts \ posts') :
              \A v \in Followers(p.authorId) \cup {p.authorId} :
                  ~feedCache'[v].present]_vars

\* C4 (as stated): the first page requested after liking a post shows it
\* liked with a count one above the count shown before the like; the first
\* page requested after the following unlike shows it not liked with the
\* count shown before the like.
C4_LikeVisibleInFeed ==
    /\ likeTrack.st = "shownLiked" /\ likeTrack.seen =>
           likeTrack.liked /\ likeTrack.count = likeTrack.pre + 1
    /\ likeTrack.st = "shownUnliked" /\ likeTrack.seen =>
           ~likeTrack.liked /\ likeTrack.count = likeTrack.pre

\* C5 (as stated): in every returned page createdAt never increases from a
\* post to the next, and of two adjacent posts with equal createdAt the one
\* with the larger id comes first.
C5_PageOrdering ==
    FeedAnswered =>
        \A i \in 1..(Len(resp.posts) - 1) :
            \/ resp.posts[i].createdAt > resp.posts[i + 1].createdAt
            \/ /\ resp.posts[i].createdAt = resp.posts[i + 1].createdAt
               /\ resp.posts[i].id > resp.posts[i + 1].id

\* C6 (as stated): a response to a request with limit L holds at most L
\* posts, from the store or from the cache.
C6_PageSizeBound ==
    FeedAnswered => Len(resp.posts) <= LimitValue(resp.limit)

\* C7 (as stated): every post of a response is authored by the viewer or by
\* a user the viewer follows at the time of the request, and a first page
\* that is not cut by the limit shows the posts of every user the viewer
\* follows.
C7_FeedVisibility ==
    FeedAnswered =>
        /\ \A e \in Range(resp.posts) : e.authorId \in FollowingIds(resp.viewer)
        /\ resp.cursor = NoCursor /\ ~resp.hasMore =>
              \A p \in posts :
                  p.authorId \in FollowingIds(resp.viewer) \ {resp.viewer} =>
                      HasEntry(resp, p.id)

\* C8 (as stated): a request repeated with no write to the store in between
\* gets the same sequence of post ids as the first time.
C8_CursorDeterminism ==
    repeat.st = "two" => repeat.second = repeat.first

\* the last post of the (createdAt, id) order among the viewer's eligible posts
Oldest(S) ==
    CHOOSE p \in S : \A q \in S :
        \/ q.createdAt > p.createdAt
        \/ q.createdAt = p.createdAt /\ q.id >= p.id

\* C9: for a page computed from the store with limit L, hasMore holds
\* exactly when more than L posts match the query; nextCursor is the id of
\* the last returned post when hasMore and null otherwise; limit=1 returns
\* exactly one post when one matches; a cursor equal to the oldest eligible
\* post's id returns no posts and hasMore=false.
C9_HasMoreProtocol ==
    FeedAnswered /\ ~resp.cached =>
        LET matching == WhereClause(resp.viewer, resp.cursor)
            L == LimitValue(resp.limit)
        IN /\ resp.hasMore <=> Cardinality(matching) > L
           /\ resp.hasMore => /\ Len(resp.posts) = L
                              /\ resp.nextCursor = Last(resp.posts).id
           /\ ~resp.hasMore => resp.nextCursor = NoCursor
           /\ L = 1 /\ matching # {} => Len(resp.posts) = 1
           /\ Eligible(resp.viewer) # {}
                 /\ resp.cursor = Oldest(Eligible(resp.viewer)).id =>
                     resp.posts = <<>> /\ ~resp.hasMore

\* C9 witness: a store-computed page with limit 1 that has a next page
C9_Witness ==
    /\ FeedAnswered /\ ~resp.cached
    /\ resp.limit.kind = "int" /\ resp.limit.val = 1
    /\ resp.hasMore /\ resp.nextCursor = resp.posts[1].id

OutOfRange(lim) == lim.kind = "int" /\ (lim.val < MinLimit \/ lim.val > MaxLimit)

Clamp(n) == IF n < MinLimit THEN MinLimit ELSE IF n > MaxLimit THEN MaxLimit ELSE n

C11_UnknownCursorEmpty ==
    resp.op = "getFeed" /\ resp.status = 200
        /\ resp.cursor # NoCursor /\ ~PostExists(resp.cursor) =>
            resp.posts = <<>> /\ ~resp.hasMore /\ resp.nextCursor = NoCursor

\* C12: a request during which a cache operation failed is not answered
\* with an error: getFeed answers 200 with a page computed from the store,
\* createPost 201, deletePost and toggleLike 200, as with an empty cache.
C12_CacheFailureHarmless ==
    resp.cacheFailed =>
        /\ resp.status # 500
        /\ resp.op = "getFeed" =>
              /\ resp.status = 200 /\ ~resp.cached
              /\ PageOf(resp) \in StoreResponses(resp.viewer, resp.cursor, resp.take)
        /\ resp.op = "createPost" => resp.status = 201
        /\ resp.op = "deletePost" => resp.status = 200
        /\ resp.op = "toggleLike" => resp.status = 200 /\ resp.likesCount >= 0

\* C12 witness: redis.get and redis.setex both failed during a cursor-less
\* getFeed while feed:<viewer> was present, and a page with a post came back
C12_Witness ==
    /\ resp.op = "getFeed" /\ resp.cacheFailed /\ resp.status = 200
    /\ feedCache[resp.viewer].present
    /\ resp.posts # <<>>

\* C13 (as stated): two concurrent cursor-less requests of one viewer that
\* both missed the cache, with no write to the store since they started,
\* have returned the same page, and the viewer's cache entry holds it.
C13_DoubleMissHarmless ==
    /\ \A r \in Requests : inflight[r].pc = "done" /\ inflight[r].missed
                           /\ ~inflight[r].dirty
    /\ inflight[1].viewer = inflight[2].viewer
    => /\ inflight[1].page = inflight[2].page
       /\ feedCache[inflight[1].viewer] = inflight[1].page

\* C14 (as stated): a request to an authenticated endpoint that carries an
\* access token issued to a user before a successful logout of that user is
\* answered 401.
C14_LogoutInvalidates ==
    authResp.op = "getMe" /\ authResp.token \in authLog.revoked =>
        authResp.status = 401

\* C15 (as stated): a refresh token that has yielded a token pair is never
\* accepted again.
C15_RefreshRotation ==
    [][authResp'.op = "refresh" /\ authResp'.status = 200 /\ authResp' # authResp =>
          authResp'.token \notin authLog.spent]_vars

\* C17 (as stated): after a successful password change, until the next
\* login, no access token and no refresh token issued to the user before
\* the change is accepted; a change-password call answered 401 changes
\* neither the password nor the tokens.
C17_PasswordChangeEndsSessions ==
    [][/\ authResp'.op = "getMe" /\ authResp'.token \in authLog'.stale =>
             authResp'.status = 401
       /\ \A r \in Requests :
             pending[r].pc = "idle" /\ pending'[r].pc = "update" =>
                 pending'[r].token \notin authLog.stale
       /\ authResp'.op = "changePassword" /\ authResp'.status = 401 =>
             accounts' = accounts]_vars

C19_OwnerOnlyChanges ==
    [][resp'.op \in {"updatePost", "deletePost"} /\ resp' # resp =>
          IF ~PostExists(resp'.postId)
          THEN /\ resp'.status = 404
               /\ UNCHANGED <<posts, likes, comments, feedCache>>
          ELSE IF PostById(resp'.postId).authorId # resp'.viewer
          THEN /\ resp'.status = 403
               /\ UNCHANGED <<posts, likes, comments, feedCache>>
          ELSE /\ resp'.status = 200
               /\ \A p \in posts : p.id # resp'.postId => p \in posts']_vars

\* C19 witness: a user who is not the author asked to change or delete a
\* post that is in a cached first page; the answer was 403
C19_Witness ==
    /\ resp.op \in {"updatePost", "deletePost"} /\ resp.status = 403
    /\ PostExists(resp.postId) /\ PostById(resp.postId).authorId # resp.viewer
    /\ \E u \in Users : feedCache[u].present /\ HasEntry(feedCache[u], resp.postId)

\* the login requests of `ip` passed on at the instants i.. of the sequence
\* that lie less than a window after `from`
RECURSIVE PassedWithin(_, _, _)
PassedWithin(ip, from, i) ==
    IF i > Len(RateInstantSeq) THEN 0
    ELSE (IF RateInstantSeq[i] >= from /\ RateInstantSeq[i] < from + WindowMs
          THEN letThrough[ip][RateInstantSeq[i]] ELSE 0)
         + PassedWithin(ip, from, i + 1)

\* C20 (as stated): in any period of 15 minutes at most 5 login requests of
\* one IP address are passed on to the login handler.
C20_LoginRateLimit ==
    \A ip \in Ips, from \in RateInstants : PassedWithin(ip, from, 1) <= MaxAttempts

RECURSIVE SignupsWithin(_, _, _)
SignupsWithin(ip, from, i) ==
    IF i > Len(SignupInstantSeq) THEN 0
    ELSE (IF SignupInstantSeq[i] >= from /\ SignupInstantSeq[i] < from + HourMs
          THEN signupsPassed[ip][SignupInstantSeq[i]] ELSE 0)
         + SignupsWithin(ip, from, i + 1)

\* C21 (as stated): within an hour at most 3 register requests of one IP
\* address are passed on to the register handler.
C21_RegisterRateLimit ==
    \A ip \in Ips, from \in SignupInstants :
        SignupsWithin(ip, from, 1) <= SignupMaxAttempts

\* C22: there is at most one follow row per (follower, followee) pair and
\* none from a user to themself; a follow of oneself or of a user already
\* followed, and an unfollow of a user not followed, are answered with an
\* error and leave the rows unchanged, also when requests run concurrently;
\* the other follows add one row and the other unfollows remove one.
C22_FollowEdges ==
    /\ [](/\ \A f, g \in followRows :
                f.followerId = g.followerId /\ f.followingId = g.followingId => f = g
          /\ \A f \in followRows : f.followerId # f.followingId
          /\ follows = FollowPairs(followRows))
    /\ [][resp'.op \in {"followUser", "unfollowUser"} /\ resp' # resp
          => IF resp'.op = "followUser"
             THEN IF \/ resp'.viewer = resp'.target
                     \/ resp'.target \notin Users
                     \/ ExistingFollow(resp'.viewer, resp'.target) # {}
                  THEN resp'.status \in {400, 404, 409} /\ followRows' = followRows
                  ELSE /\ resp'.status = 200
                       /\ Cardinality(followRows') = Cardinality(followRows) + 1
                       /\ FollowPairs(followRows') =
                             FollowPairs(followRows) \cup {<<resp'.viewer, resp'.target>>}
             ELSE IF ExistingFollow(resp'.viewer, resp'.target) = {}
                  THEN resp'.status \in {400, 404} /\ followRows' = followRows
                  ELSE /\ resp'.status = 200
                       /\ FollowPairs(followRows') =
                             FollowPairs(followRows) \ {<<resp'.viewer, resp'.target>>}]_vars

\* the second of two concurrent follows of the same user was refused by the
\* unique constraint: one row exists
C22_Witness ==
    /\ resp.op = "followUser" /\ resp.status = 409
    /\ Cardinality(ExistingFollow(resp.viewer, resp.target)) = 1

\* the like rows after a toggleLike of `userId` on `postId` with no other
\* request in between
Toggled(rows, postId, userId, id) ==
    LikeRowsAfter(rows, ExistingLike(rows, postId, userId), postId, userId, id)

NotesOf(postId, likerId) == {n \in noteRows : n.postId = postId /\ n.actor = likerId}

C25_NoDeletedPostCached ==
    (\A r \in Requests : inflight[r].pc \in {"idle", "done"})
    => \A v \in Users :
          feedCache[v].present
          => \A i \in 1..Len(feedCache[v].posts) : PostExists(feedCache[v].posts[i].id)

\* C26 (as stated): every authenticated endpoint (getMe, logout,
\* changePassword) rejects an access token that was issued before a logout
\* of its user, also when the user holds a session created at a later
\* second than the token.
C26_RevokedStaysRevoked ==
    /\ authResp.op \in {"getMe", "logout", "changePassword"}
    /\ authResp.token \in authLog.revoked
    /\ \E a \in accounts : /\ a.id = authResp.token.userId
                           /\ a.refreshToken # NoToken
                           /\ a.refreshToken.iat > authResp.token.iat
    => authResp.status = 401

\* the users who hold at least one connected socket
Connected == {socket.userId : socket \in sockets}

\* C27 (as stated): isUserOnline(u) is true exactly when u holds a connected
\* socket, and the value sent as 'online:count' is the number of users who
\* hold one.
C27_PresenceTracking ==
    /\ \A u \in Users : IsUserOnline(u) <=> u \in Connected
    /\ onlineCount = Cardinality(Connected)

====
